---- MODULE Spec2Model ----
(***************************************************************************)
(* rnnoise-cli: the module-graph orchestrator (PulseInterface) and the     *)
(* commands that drive it, against a PulseAudio server and the pickled     *)
(* LoadInfo record under ~/.cache/rnnoise_cli.                             *)
(*                                                                         *)
(* The state is what survives between invocations of the command line:     *)
(* the pickle file, the modules live on the server, the server's module    *)
(* index counter, its default source, the streams recording from a source, *)
(* and (as an observation) what the last invocation did.  Each command is  *)
(* one action, since an invocation runs to completion before the next.     *)
(***************************************************************************)
EXTENDS Integers, Sequences, FiniteSets, TLC

VARIABLES
    file,           \* content of LOADED_MODULES_PATH
    live,           \* modules loaded on the server
    nextIndex,      \* index the server gives to the next module it loads
    defaultSource,  \* server_info().default_source_name
    streams,        \* source indices that some source-output records from
    incidents,      \* refusals by the server and tamperings so far
    last,           \* what the last invocation was and how it ended
    running         \* two invocations running side by side: where each is

vars == <<file, live, nextIndex, defaultSource, streams, incidents, last,
          running>>

----------------------------------------------------------------------------
(* Bounds of the model. *)

\* The server hands out module indices 0 .. MaxIndex-1 between two restarts.
MaxIndex == 9

\* In a behaviour, at most MaxIncidents times in all does the server refuse
\* a request, a module get unloaded from outside, the server restart or
\* the pickle get damaged.
MaxIncidents == 1

(* Program constants. *)

MinControl == 0
MaxControl == 100
DefaultControl == 50

null_sink_name == "rnnoise_mic_denoised_out"
ladspa_sink_name == "rnnoise_mic_raw_in"
loopback_key == "loopback"
remap_source_name == "rnnoise_denoised"

\* rnn_names of rnn_is_loaded, also the keys of LoadInfo.modules in the
\* order load_modules inserts them (a dict iterates in insertion order).
rnn_names == {null_sink_name, ladspa_sink_name, loopback_key, remap_source_name}
StageOrder == <<null_sink_name, ladspa_sink_name, loopback_key, remap_source_name>>

\* The module type load_modules passes to module_load for each key.
KindOf(stage) ==
    CASE stage = null_sink_name -> "module-null-sink"
      [] stage = ladspa_sink_name -> "module-ladspa-sink"
      [] stage = loopback_key -> "module-loopback"
      [] stage = remap_source_name -> "module-remap-source"

\* The types unload_modules_all names.
RnnKinds == {"module-loopback", "module-null-sink", "module-ladspa-sink",
             "module-remap-source"}

(* Inputs. *)

\* Hardware sources of the machine (pulsectl.PulseSourceInfo).
Devices == {[index |-> 0, name |-> "alsa_input.a", channel_count |-> 1],
            [index |-> 1, name |-> "alsa_input.b", channel_count |-> 2]}

\* --control / CONTROL_LEVEL values tried: below, at both ends of and
\* above the documented range.
Controls == {-1, 0, 100, 101}

\* The inputs tried where the environment interferes: one device and one
\* control level, outside the range (activate stores 50 for it, control
\* set stores it as given).
SomeDevices == {d \in Devices : d.index = 0}
SomeControls == {c \in Controls : c > MaxControl}

\* Where the server refuses an invocation's requests: the load of stage
\* 1..4, the source_default_set after them (5), or nowhere (6).
RejectPoints == 1..6

----------------------------------------------------------------------------
(* The pickle file. *)

NoFile == [kind |-> "absent"]
Malformed == [kind |-> "malformed"]
Truncated == [kind |-> "truncated"]
NoModules == [s \in {} |-> 0]

\* LoadInfo.from_pickle: open() raises FileNotFoundError, pickle.load
\* raises EOFError on a file without content (as open(..., 'wb') leaves it
\* until the dump is done), an object that is no LoadInfo gives
\* ValueError; "none": the object is returned.
from_pickle_error(f) ==
    CASE f.kind = "absent" -> "FileNotFoundError"
      [] f.kind = "LoadInfo" -> "none"
      [] f.kind = "truncated" -> "EOFError"
      [] OTHER -> "ValueError"

\* get_loaded_modules: the pickled modules, {} on ValueError and
\* FileNotFoundError ...
get_loaded_modules(f) ==
    IF from_pickle_error(f) = "none" THEN f.modules ELSE NoModules

\* ... and the exception of from_pickle it does not catch ("none": it
\* returns).
get_loaded_modules_raises(f) ==
    IF from_pickle_error(f) \in {"none", "ValueError", "FileNotFoundError"}
    THEN "none"
    ELSE from_pickle_error(f)

----------------------------------------------------------------------------
(* The server, as one invocation sees it.  A world is the state an         *)
(* invocation works on, with the requests it has sent (reqs) and the       *)
(* exception it is unwinding with (exc).                                   *)

World == [file |-> file, live |-> live, streams |-> streams,
          next |-> nextIndex, dflt |-> defaultSource,
          reqs |-> <<>>, refused |-> 0, exc |-> "none"]

\* A request and the server's answer: load of a stage with the control=
\* and source= options it carries (0 and "" where the stage has none) and
\* the index returned (-1: refused), or unload of an index (not ok: the
\* server has no such module).
Req(op, stage, index, control, device, ok) ==
    [stage |-> stage, index |-> index, op |-> op, control |-> control,
     device |-> device, ok |-> ok]

\* Source indices of module-provided sources follow the hardware ones.
SourceIndex(m) == Cardinality(Devices) + m.index

\* pulse.source_list(): hardware sources, sink monitors, remapped sources.
source_list(w) ==
    {[index |-> d.index, name |-> d.name] : d \in Devices}
    \cup {[index |-> SourceIndex(m), name |-> m.source] :
             m \in {x \in w.live : x.source # ""}}

\* Name of the source a module of this stage registers: a sink registers
\* its monitor "<sink_name>.monitor" (the name load_modules gives to the
\* remapped source as its master), a loopback registers no source.
SourceBase(stage) ==
    CASE stage = null_sink_name -> null_sink_name \o ".monitor"
      [] stage = ladspa_sink_name -> ladspa_sink_name \o ".monitor"
      [] stage = loopback_key -> ""
      [] stage = remap_source_name -> remap_source_name

Suffixed(base, k) == IF k = 1 THEN base ELSE base \o "." \o ToString(k)

\* The server registers a name already in use under the next free suffix.
FreshName(w, base) ==
    IF base = "" THEN ""
    ELSE LET taken == {s.name : s \in source_list(w)}
             k == CHOOSE i \in 1..(MaxIndex + 2) :
                     /\ Suffixed(base, i) \notin taken
                     /\ \A j \in 1..(i - 1) : Suffixed(base, j) \in taken
         IN Suffixed(base, k)

\* pulse.module_load(kind, opts): the server either refuses
\* (PulseOperationFailed) or loads the module and returns its index.
\* `by` says who asked: it is no field of the server's, only of the model.
module_load(w, stage, by, control, device, reject) ==
    IF reject
    THEN [w EXCEPT !.exc = "PulseOperationFailed",
                   !.refused = @ + 1,
                   !.reqs = Append(@, Req("load", stage, -1, control, device, FALSE))]
    ELSE [w EXCEPT !.live = @ \cup {[stage |-> stage,
                                     index |-> w.next,
                                     kind |-> KindOf(stage),
                                     source |-> FreshName(w, SourceBase(stage)),
                                     by |-> by]},
                   !.next = @ + 1,
                   !.reqs = Append(@, Req("load", stage, w.next, control, device, TRUE))]

\* The server removes modules: their sources go, and so do the
\* source-outputs that recorded from them.
Removed(w, gone) ==
    [w EXCEPT !.live = @ \ gone,
              !.streams = @ \ {SourceIndex(m) : m \in gone}]

\* pulse.module_unload(index): PulseOperationFailed when no module has it.
module_unload(w, index) ==
    LET hit == {m \in w.live : m.index = index}
        sent == [w EXCEPT !.reqs = Append(@, Req("unload", "", index, 0, "",
                                                 hit # {}))]
    IN IF hit = {}
       THEN [sent EXCEPT !.exc = "PulseOperationFailed"]
       ELSE Removed(sent, hit)

\* pulse.source_default_set(name)
source_default_set(w, name, reject) ==
    IF reject
    THEN [w EXCEPT !.exc = "PulseOperationFailed", !.refused = @ + 1]
    ELSE [w EXCEPT !.dflt = name]

\* PulseInterface.get_source_by_name: the sources of that name (none: the
\* ValueError of the code).
get_source_by_name(w, name) == {s \in source_list(w) : s.name = name}

----------------------------------------------------------------------------
(* PulseInterface *)

\* A call of get_loaded_modules in this world raises, and the world the
\* method is left in when it does.
Unreadable(w) == get_loaded_modules_raises(w.file) # "none"
Raise(w) == [w EXCEPT !.exc = get_loaded_modules_raises(w.file)]

\* d[key] = value on a dict
Put(d, key, value) ==
    [k \in DOMAIN d \cup {key} |-> IF k = key THEN value ELSE d[k]]

\* A variant that trusts the pickle and does not ask the server.
rnn_is_loaded_by_pickle(w) ==
    DOMAIN get_loaded_modules(w.file) # {}

rnn_is_loaded(w) ==
    IF DOMAIN get_loaded_modules(w.file) # {}
    THEN \E s \in source_list(w) : s.name \in rnn_names
    ELSE FALSE

\* A variant that looks the remapped source up by the pickled handle.
streams_using_rnnoise_recorded(w) ==
    LET modules == get_loaded_modules(w.file)
    IN IF remap_source_name \notin DOMAIN modules THEN FALSE
       ELSE \E m \in w.live :
               /\ m.index = modules[remap_source_name]
               /\ SourceIndex(m) \in w.streams

\* A variant that never sees a stream.
streams_using_rnnoise_unseen(w) == FALSE

streams_using_rnnoise(w) ==
    LET found == get_source_by_name(w, remap_source_name)
    IN IF found = {} THEN FALSE
       ELSE \E s \in found : s.index \in w.streams

\* A variant that writes nothing.
write_pickle_skipped(w, device, control, modules) == w

\* LoadInfo(...).write_pickle()
write_pickle(w, device, control, modules) ==
    [w EXCEPT !.file = [kind |-> "LoadInfo", modules |-> modules,
                        control |-> control, device |-> device]]

\* A variant that leaves the pickle where it is.
unlink_kept(w) == w

\* LOADED_MODULES_PATH.unlink(missing_ok=True)
unlink(w) == [w EXCEPT !.file = NoFile]

\* A variant that loads the loopback before the filter sink.
load_modules_loopback_first(w, device, control, set_default, rejectAt) ==
    LET loaded == get_loaded_modules(w.file)
        w1 == module_load(w, null_sink_name, "rnnoise_cli", 0, "", rejectAt = 1)
        l1 == Put(loaded, null_sink_name, w.next)
        w2 == module_load(w1, loopback_key, "rnnoise_cli", 0, device.name, rejectAt = 2)
        l2 == Put(l1, loopback_key, w1.next)
        w3 == module_load(w2, ladspa_sink_name, "rnnoise_cli", control, "", rejectAt = 3)
        l3 == Put(l2, ladspa_sink_name, w2.next)
        w4 == module_load(w3, remap_source_name, "rnnoise_cli", 0, "", rejectAt = 4)
        l4 == Put(l3, remap_source_name, w3.next)
        w5 == IF set_default
              THEN source_default_set(w4, remap_source_name, rejectAt = 5)
              ELSE w4
    IN IF Unreadable(w) THEN Raise(w)
       ELSE IF w1.exc # "none" THEN w1
       ELSE IF w2.exc # "none" THEN w2
       ELSE IF w3.exc # "none" THEN w3
       ELSE IF w4.exc # "none" THEN w4
       ELSE IF w5.exc # "none" THEN w5
       ELSE write_pickle(w5, device, control, l4)

\* A variant that pickles the handles after every load.
load_modules_incremental(w, device, control, set_default, rejectAt) ==
    LET loaded == get_loaded_modules(w.file)
        w1 == module_load(w, null_sink_name, "rnnoise_cli", 0, "", rejectAt = 1)
        l1 == Put(loaded, null_sink_name, w.next)
        p1 == write_pickle(w1, device, control, l1)
        w2 == module_load(p1, ladspa_sink_name, "rnnoise_cli", control, "", rejectAt = 2)
        l2 == Put(l1, ladspa_sink_name, p1.next)
        p2 == write_pickle(w2, device, control, l2)
        w3 == module_load(p2, loopback_key, "rnnoise_cli", 0, device.name, rejectAt = 3)
        l3 == Put(l2, loopback_key, p2.next)
        p3 == write_pickle(w3, device, control, l3)
        w4 == module_load(p3, remap_source_name, "rnnoise_cli", 0, "", rejectAt = 4)
        l4 == Put(l3, remap_source_name, p3.next)
        p4 == write_pickle(w4, device, control, l4)
    IN IF Unreadable(w) THEN Raise(w)
       ELSE IF w1.exc # "none" THEN w1
       ELSE IF w2.exc # "none" THEN w2
       ELSE IF w3.exc # "none" THEN w3
       ELSE IF w4.exc # "none" THEN w4
       ELSE IF set_default
            THEN source_default_set(p4, remap_source_name, rejectAt = 5)
            ELSE p4

\* load_modules: the four loads in order, each raising out of the method
\* when refused; then the default source; then the pickle.
load_modules(w, device, control, set_default, rejectAt) ==
    LET loaded == get_loaded_modules(w.file)
        w1 == module_load(w, null_sink_name, "rnnoise_cli", 0, "", rejectAt = 1)
        l1 == Put(loaded, null_sink_name, w.next)
        w2 == module_load(w1, ladspa_sink_name, "rnnoise_cli", control, "", rejectAt = 2)
        l2 == Put(l1, ladspa_sink_name, w1.next)
        w3 == module_load(w2, loopback_key, "rnnoise_cli", 0, device.name, rejectAt = 3)
        l3 == Put(l2, loopback_key, w2.next)
        w4 == module_load(w3, remap_source_name, "rnnoise_cli", 0, "", rejectAt = 4)
        l4 == Put(l3, remap_source_name, w3.next)
        w5 == IF set_default
              THEN source_default_set(w4, remap_source_name, rejectAt = 5)
              ELSE w4
    IN IF Unreadable(w) THEN Raise(w)
       ELSE IF w1.exc # "none" THEN w1
       ELSE IF w2.exc # "none" THEN w2
       ELSE IF w3.exc # "none" THEN w3
       ELSE IF w4.exc # "none" THEN w4
       ELSE IF w5.exc # "none" THEN w5
       ELSE write_pickle(w5, device, control, l4)

\* A variant without the except clause.
raise_if_already_unloaded(r) == r

\* "except pulsectl.PulseOperationFailed: pass" around module_unload
pass_if_already_unloaded(r) ==
    IF r.exc = "PulseOperationFailed" THEN [r EXCEPT !.exc = "none"] ELSE r

\* The loop of unload_modules over modules.items(), which an exception
\* would leave.
RECURSIVE unload_each(_, _, _)
unload_each(w, modules, order) ==
    IF order = <<>> \/ w.exc # "none" THEN w
    ELSE IF Head(order) \in DOMAIN modules
         THEN unload_each(pass_if_already_unloaded(module_unload(w, modules[Head(order)])),
                          modules, Tail(order))
         ELSE unload_each(w, modules, Tail(order))

\* A variant that drops the pickle before it looks for streams.
unload_modules_unlink_first(w, force) ==
    IF ~force /\ streams_using_rnnoise(w)
    THEN [unlink(w) EXCEPT !.exc = "RNNInUseException"]
    ELSE IF Unreadable(w) THEN Raise(w)
    ELSE LET modules == get_loaded_modules(w.file)
             r == unload_each(w, modules, StageOrder)
         IN IF DOMAIN modules = {}
            THEN [w EXCEPT !.exc = "NoLoadedModulesException"]
            ELSE IF r.exc # "none" THEN r
            ELSE unlink(r)

\* A variant without the NoLoadedModulesException.
unload_modules_silent(w, force) ==
    IF ~force /\ streams_using_rnnoise(w)
    THEN [w EXCEPT !.exc = "RNNInUseException"]
    ELSE IF Unreadable(w) THEN Raise(w)
    ELSE LET r == unload_each(w, get_loaded_modules(w.file), StageOrder)
         IN IF r.exc # "none" THEN r ELSE unlink(r)

unload_modules(w, force) ==
    IF ~force /\ streams_using_rnnoise(w)
    THEN [w EXCEPT !.exc = "RNNInUseException"]
    ELSE IF Unreadable(w) THEN Raise(w)
    ELSE LET modules == get_loaded_modules(w.file)
             r == unload_each(w, modules, StageOrder)
         IN IF DOMAIN modules = {}
            THEN [w EXCEPT !.exc = "NoLoadedModulesException"]
            ELSE IF r.exc # "none" THEN r
            ELSE unlink(r)

\* A variant that spares the modules rnnoise-cli did not load.
unload_modules_all_own(w) ==
    LET gone == {m \in w.live : m.kind \in RnnKinds /\ m.by = "rnnoise_cli"}
        sent == [w EXCEPT !.reqs = @ \o <<Req("unload-type", "module-loopback", -1, 0, "", TRUE),
                                           Req("unload-type", "module-null-sink", -1, 0, "", TRUE),
                                           Req("unload-type", "module-ladspa-sink", -1, 0, "", TRUE),
                                           Req("unload-type", "module-remap-source", -1, 0, "", TRUE)>>]
    IN Removed(unlink(sent), gone)

\* unload_modules_all: the pickle goes, then "unload-module <type>" for
\* the four types, which the server applies to every module of the type.
unload_modules_all(w) ==
    LET gone == {m \in w.live : m.kind \in RnnKinds}
        sent == [w EXCEPT !.reqs = @ \o <<Req("unload-type", "module-loopback", -1, 0, "", TRUE),
                                           Req("unload-type", "module-null-sink", -1, 0, "", TRUE),
                                           Req("unload-type", "module-ladspa-sink", -1, 0, "", TRUE),
                                           Req("unload-type", "module-remap-source", -1, 0, "", TRUE)>>]
    IN Removed(unlink(sent), gone)

\* A variant that rebuilds on the first hardware source.
change_control_level_first_device(w, control, force, set_default, rejectAt) ==
    IF Unreadable(w) THEN Raise(w)
    ELSE IF ~rnn_is_loaded(w)
    THEN [w EXCEPT !.exc = "NotActivatedException"]
    ELSE IF ~force /\ streams_using_rnnoise(w)
    THEN [w EXCEPT !.exc = "RNNInUseException"]
    ELSE IF from_pickle_error(w.file) # "none"
    THEN [w EXCEPT !.exc = "NotActivatedException"]
    ELSE LET u == unload_modules(w, FALSE)
         IN IF u.exc # "none" THEN u
            ELSE load_modules(u, CHOOSE d \in Devices : d.index = 0, control,
                              set_default, rejectAt)

\* A variant that looks for streams before it looks for the pipeline.
change_control_level_guard_first(w, control, force, set_default, rejectAt) ==
    IF ~force /\ streams_using_rnnoise(w)
    THEN [w EXCEPT !.exc = "RNNInUseException"]
    ELSE IF Unreadable(w) THEN Raise(w)
    ELSE IF ~rnn_is_loaded(w) \/ from_pickle_error(w.file) # "none"
    THEN [w EXCEPT !.exc = "NotActivatedException"]
    ELSE LET u == unload_modules(w, FALSE)
         IN IF u.exc # "none" THEN u
            ELSE load_modules(u, w.file.device, control, set_default, rejectAt)

\* A variant that reloads with the pickled control level.
change_control_level_keeping(w, control, force, set_default, rejectAt) ==
    IF Unreadable(w) THEN Raise(w)
    ELSE IF ~rnn_is_loaded(w)
    THEN [w EXCEPT !.exc = "NotActivatedException"]
    ELSE IF ~force /\ streams_using_rnnoise(w)
    THEN [w EXCEPT !.exc = "RNNInUseException"]
    ELSE IF from_pickle_error(w.file) # "none"
    THEN [w EXCEPT !.exc = "NotActivatedException"]
    ELSE LET u == unload_modules(w, FALSE)
         IN IF u.exc # "none" THEN u
            ELSE load_modules(u, w.file.device, w.file.control, set_default, rejectAt)

\* change_control_level: unload_modules is called without `force`.
change_control_level(w, control, force, set_default, rejectAt) ==
    IF Unreadable(w) THEN Raise(w)
    ELSE IF ~rnn_is_loaded(w)
    THEN [w EXCEPT !.exc = "NotActivatedException"]
    ELSE IF ~force /\ streams_using_rnnoise(w)
    THEN [w EXCEPT !.exc = "RNNInUseException"]
    ELSE IF from_pickle_error(w.file) # "none"
    THEN [w EXCEPT !.exc = "NotActivatedException"]
    ELSE LET old_device == w.file.device
             u == unload_modules(w, FALSE)
         IN IF u.exc # "none" THEN u
            ELSE load_modules(u, old_device, control, set_default, rejectAt)

----------------------------------------------------------------------------
(* The commands (commands.py) and what they leave in `last`:               *)
(*   op          the command, or "env" for a step of the environment       *)
(*   all, force  --force-unload-all and --force as given                   *)
(*   control     the control level as given                                *)
(*   set_default --set-default as given                                    *)
(*   first       how the command's first call into PulseInterface ended    *)
(*   retried     the user confirmed and the call was repeated with force   *)
(*   result      how the command's last call into PulseInterface ended     *)
(*   reqs        the load and unload requests sent to the server, in order *)
(*   before      what held when the command began: the kind of the pickle, *)
(*               rnn_is_loaded(), and whether a stream recorded from the   *)
(*               source named rnnoise_denoised                             *)

Outcome(w) == IF w.exc = "none" THEN "ok" ELSE w.exc

\* A stream records from the source named rnnoise_denoised.
Consumed ==
    \E m \in live : m.source = remap_source_name /\ SourceIndex(m) \in streams

Before == [record |-> file.kind, active |-> rnn_is_loaded(World),
           consumed |-> Consumed]

Env == [reqs |-> <<>>, op |-> "env", control |-> 0, set_default |-> FALSE,
        force |-> FALSE, all |-> FALSE, first |-> "ok", retried |-> FALSE,
        result |-> "ok",
        before |-> [record |-> "absent", active |-> FALSE, consumed |-> FALSE]]

Began(op) == [Env EXCEPT !.op = op, !.before = Before]

Commit(w, obs) ==
    /\ w.next <= MaxIndex
    /\ incidents + w.refused <= MaxIncidents
    /\ incidents' = incidents + w.refused
    /\ file' = w.file
    /\ live' = w.live
    /\ nextIndex' = w.next
    /\ defaultSource' = w.dflt
    /\ streams' = w.streams
    /\ last' = obs
    /\ UNCHANGED running

\* activate: "if control is None or not 0 <= control <= 100: control = 50"
EffectiveControl(control) ==
    IF ~(MinControl <= control /\ control <= MaxControl)
    THEN DefaultControl
    ELSE control

\* rnnoise activate --device d --control c --[no-]set-default; `confirm`
\* is the answer to "RNNoise is already loaded. Continue anyway?".
Activate(device, control, set_default, confirm, rejectAt) ==
    LET obs == [Began("activate") EXCEPT !.control = control,
                           !.set_default = set_default]
    IN IF Unreadable(World)
       THEN Commit(Raise(World), [obs EXCEPT !.first = Outcome(Raise(World)),
                                             !.result = Outcome(Raise(World))])
       ELSE IF rnn_is_loaded(World) /\ ~confirm
       THEN Commit(World, [obs EXCEPT !.first = "declined", !.result = "declined"])
       ELSE LET r == load_modules(World, device, EffectiveControl(control),
                                  set_default, rejectAt)
            IN Commit(r, [obs EXCEPT !.first = Outcome(r), !.result = Outcome(r),
                                     !.reqs = r.reqs])

\* A variant that repeats the call with force without asking.
Deactivate_escalating(force_unload_all, force, confirm) ==
    LET obs == [Began("deactivate") EXCEPT !.all = force_unload_all,
                           !.force = force]
        first == unload_modules(World, force)
        second == unload_modules(World, TRUE)
    IN IF force_unload_all
       THEN Commit(unload_modules_all(World),
                   [obs EXCEPT !.reqs = unload_modules_all(World).reqs])
       ELSE IF first.exc = "RNNInUseException"
       THEN Commit(second, [obs EXCEPT !.first = Outcome(first),
                                       !.result = Outcome(second),
                                       !.reqs = first.reqs \o second.reqs])
       ELSE Commit(first,
                   [obs EXCEPT !.first = Outcome(first), !.result = Outcome(first),
                               !.reqs = first.reqs])

\* rnnoise deactivate [--force-unload-all] [--force]; `confirm` is the
\* answer to "The RNNoise input stream is in use ... Are you sure?".
Deactivate(force_unload_all, force, confirm) ==
    LET obs == [Began("deactivate") EXCEPT !.all = force_unload_all,
                           !.force = force]
        first == unload_modules(World, force)
        second == unload_modules(World, TRUE)
    IN IF force_unload_all
       THEN LET r == unload_modules_all(World)
            IN Commit(r, [obs EXCEPT !.reqs = r.reqs])
       ELSE IF first.exc = "RNNInUseException" /\ confirm
       THEN Commit(second, [obs EXCEPT !.first = Outcome(first), !.retried = TRUE,
                                       !.result = Outcome(second),
                                       !.reqs = first.reqs \o second.reqs])
       ELSE Commit(first,
                   [obs EXCEPT !.first = Outcome(first), !.result = Outcome(first),
                               !.reqs = first.reqs])

\* rnnoise control set CONTROL_LEVEL [--force] [--[no-]set-default]
ControlSet(control, force, set_default, confirm, rejectAt) ==
    LET obs == [Began("control_set") EXCEPT !.force = force,
                           !.control = control, !.set_default = set_default]
        first == change_control_level(World, control, force, set_default, rejectAt)
        second == change_control_level(World, control, TRUE, set_default, rejectAt)
    IN IF first.exc = "RNNInUseException" /\ confirm
       THEN Commit(second, [obs EXCEPT !.first = Outcome(first), !.retried = TRUE,
                                       !.result = Outcome(second),
                                       !.reqs = first.reqs \o second.reqs])
       ELSE Commit(first, [obs EXCEPT !.first = Outcome(first),
                                      !.result = Outcome(first),
                                      !.reqs = first.reqs])

----------------------------------------------------------------------------
(* The environment: other clients of the server, and the machine. *)

\* Some application starts recording from a remapped source.
StreamAttach(m) ==
    /\ m.kind = "module-remap-source"
    /\ SourceIndex(m) \notin streams
    /\ streams' = streams \cup {SourceIndex(m)}
    /\ last' = Env
    /\ UNCHANGED <<file, live, nextIndex, defaultSource, incidents, running>>

\* ... and stops.
StreamDetach(s) ==
    /\ streams' = streams \ {s}
    /\ last' = Env
    /\ UNCHANGED <<file, live, nextIndex, defaultSource, incidents, running>>

Tamper(w) ==
    /\ incidents < MaxIncidents
    /\ incidents' = incidents + 1
    /\ file' = w.file
    /\ live' = w.live
    /\ nextIndex' = w.next
    /\ defaultSource' = w.dflt
    /\ streams' = w.streams
    /\ last' = Env
    /\ UNCHANGED running

\* A module is unloaded outside this application (pactl unload-module).
ExternalUnload(m) == Tamper(Removed(World, {m}))

\* What the server loads at startup: here one loopback that is none of
\* rnnoise-cli's.
StartupModules ==
    {[stage |-> loopback_key, index |-> 0, kind |-> "module-loopback",
      source |-> "", by |-> "other"]}

\* The server restarts (a reboot): every module loaded at run time is
\* gone and indices start again; the pickle stays.
ServerRestart ==
    Tamper([World EXCEPT !.live = StartupModules,
                         !.next = Cardinality(StartupModules),
                         !.streams = {},
                         !.dflt = "alsa_input.a"])

\* The pickle is replaced by something that is no LoadInfo: another object
\* (written by another version of the program), or nothing (a write that
\* was cut short).
Damaged == {Malformed, Truncated}

CorruptFile(content) ==
    /\ file # content
    /\ Tamper([World EXCEPT !.file = content])

----------------------------------------------------------------------------

\* Two invocations not yet started: an activate (apc, the `loaded` dict of
\* load_modules, --set-default, the indices it was given) and a deactivate
\* (dpc, the indices of `modules` unload_modules has still to go through);
\* overlap: both were under way at the same time.
Idle ==
    [apc |-> "start", aloaded |-> NoModules, adefault |-> FALSE, amine |-> {},
     dpc |-> "start", dtodo |-> <<>>, overlap |-> FALSE]

Init ==
    /\ running = Idle
    /\ file = NoFile
    /\ live = StartupModules
    /\ nextIndex = Cardinality(StartupModules)
    /\ defaultSource = "alsa_input.a"
    /\ streams = {}
    /\ incidents = 0
    /\ last = Env

\* Answers to a prompt: none is asked for unless the prompt is shown.
Answers(asked) == IF asked THEN BOOLEAN ELSE {TRUE}

\* Where the server may refuse in this invocation; without --set-default
\* there is no source_default_set to refuse.
Refusals(possible, set_default) ==
    IF possible /\ incidents < MaxIncidents
    THEN {k \in RejectPoints : k = 5 => set_default}
    ELSE {6}

InUse == streams_using_rnnoise(World)

\* The three commands, over the given inputs; `refuse` says whether the
\* server may refuse requests.
Commands(devices, controls, refuse) ==
    \/ \E d \in devices, c \in controls, sd \in BOOLEAN :
          \E confirm \in Answers(rnn_is_loaded(World)) :
             \E k \in Refusals(refuse /\ confirm, sd) :
                Activate(d, c, sd, confirm, k)
    \/ \E all \in BOOLEAN :
          \E force \in (IF all THEN {FALSE} ELSE BOOLEAN) :
             \E confirm \in Answers(~all /\ ~force /\ InUse) :
                Deactivate(all, force, confirm)
    \/ \E c \in controls, force \in BOOLEAN, sd \in BOOLEAN :
          \E confirm \in Answers(rnn_is_loaded(World) /\ ~force /\ InUse) :
             \E k \in Refusals(refuse /\ rnn_is_loaded(World) /\ ~InUse, sd) :
                ControlSet(c, force, sd, confirm, k)

Clients ==
    \/ \E m \in live : StreamAttach(m)
    \/ \E s \in streams : StreamDetach(s)

Tampering ==
    \/ \E m \in live : ExternalUnload(m)
    \/ ServerRestart
    \/ \E content \in Damaged : CorruptFile(content)

Next ==
    \/ Commands(SomeDevices, SomeControls, TRUE)
    \/ Clients
    \/ Tampering

Spec == Init /\ [][Next]_vars

\* Every input, with a server that refuses nothing and an environment that
\* only attaches and detaches streams.
NextInputs ==
    \/ Commands(Devices, Controls, FALSE)
    \/ Clients

SpecInputs == Init /\ [][NextInputs]_vars

----------------------------------------------------------------------------
(* rnnoise activate and rnnoise deactivate as two processes: every call    *)
(* to the server and every read or write of the pickle is a step of its    *)
(* own, and the steps of the two interleave.                               *)

\* The server and the pickle before either starts: as at startup, or as an
\* earlier rnnoise activate left them.
Booted ==
    [file |-> NoFile, live |-> StartupModules, streams |-> {},
     next |-> Cardinality(StartupModules), dflt |-> "alsa_input.a",
     reqs |-> <<>>, refused |-> 0, exc |-> "none"]

RaceDevice == CHOOSE d \in SomeDevices : TRUE

Starts == {Booted, load_modules(Booted, RaceDevice, DefaultControl, FALSE, 6)}

InitRace ==
    /\ running = Idle
    /\ \E w \in Starts :
          /\ file = w.file
          /\ live = w.live
          /\ nextIndex = w.next
          /\ defaultSource = w.dflt
          /\ streams = w.streams
    /\ incidents = 0
    /\ last = Env

Busy(pc) == pc \notin {"start", "done"}

\* A step leaves the world w and the two invocations as r.
Step(w, r) ==
    /\ w.next <= MaxIndex
    /\ file' = w.file
    /\ live' = w.live
    /\ nextIndex' = w.next
    /\ defaultSource' = w.dflt
    /\ streams' = w.streams
    /\ running' = [r EXCEPT !.overlap = @ \/ (Busy(r.apc) /\ Busy(r.dpc))]
    /\ UNCHANGED <<incidents, last>>

\* activate: rnn_is_loaded() and the question "Continue anyway?"
ActivateBegins(set_default, confirm) ==
    /\ running.apc = "start"
    /\ Step(World, [running EXCEPT !.apc = IF rnn_is_loaded(World) /\ ~confirm
                                           THEN "done" ELSE "read",
                                   !.adefault = set_default])

\* load_modules: loaded = get_loaded_modules()
ActivateReads ==
    /\ running.apc = "read"
    /\ Step(World, [running EXCEPT !.apc = IF Unreadable(World) THEN "done" ELSE "load1",
                                   !.aloaded = get_loaded_modules(file)])

\* load_modules: the k-th module_load, and loaded[stage] = index
ActivateLoads(k) ==
    /\ running.apc = "load" \o ToString(k)
    /\ Step(module_load(World, StageOrder[k], "rnnoise_cli",
                        IF StageOrder[k] = ladspa_sink_name THEN DefaultControl ELSE 0,
                        IF StageOrder[k] = loopback_key THEN RaceDevice.name ELSE "",
                        FALSE),
            [running EXCEPT !.apc = IF k < Len(StageOrder)
                                    THEN "load" \o ToString(k + 1) ELSE "default",
                            !.aloaded = Put(@, StageOrder[k], nextIndex),
                            !.amine = @ \cup {nextIndex}])

\* load_modules: if set_default: source_default_set(remap_source_name)
ActivateSetsDefault ==
    /\ running.apc = "default"
    /\ Step(IF running.adefault
            THEN source_default_set(World, remap_source_name, FALSE)
            ELSE World,
            [running EXCEPT !.apc = "write"])

\* A variant that pickles the modules found in the pickle at this moment.
ActivateWrites_reread ==
    /\ running.apc = "write"
    /\ Step(write_pickle(World, RaceDevice, DefaultControl, get_loaded_modules(file)),
            [running EXCEPT !.apc = "done"])

\* load_modules: LoadInfo(...).write_pickle()
ActivateWrites ==
    /\ running.apc = "write"
    /\ Step(write_pickle(World, RaceDevice, DefaultControl, running.aloaded),
            [running EXCEPT !.apc = "done"])

\* unload_modules: the test for streams, with the question of deactivate
\* after RNNInUseException
DeactivateBegins(force, confirm) ==
    /\ running.dpc = "start"
    /\ Step(World, [running EXCEPT !.dpc = IF ~force /\ InUse /\ ~confirm
                                           THEN "done" ELSE "read"])

\* unload_modules: modules = get_loaded_modules(), NoLoadedModulesException
\* when there are none
DeactivateReads ==
    /\ running.dpc = "read"
    /\ LET modules == get_loaded_modules(file)
           items == SelectSeq(StageOrder, LAMBDA s : s \in DOMAIN modules)
       IN Step(World, [running EXCEPT !.dpc = IF Unreadable(World) \/ items = <<>>
                                              THEN "done" ELSE "unload",
                                      !.dtodo = [i \in DOMAIN items |-> modules[items[i]]]])

\* unload_modules: one turn of the loop over modules.items()
DeactivateUnloads ==
    /\ running.dpc = "unload"
    /\ Step(pass_if_already_unloaded(module_unload(World, Head(running.dtodo))),
            [running EXCEPT !.dpc = IF Tail(running.dtodo) = <<>> THEN "unlink" ELSE "unload",
                            !.dtodo = Tail(@)])

\* unload_modules: LOADED_MODULES_PATH.unlink(missing_ok=True)
DeactivateUnlinks ==
    /\ running.dpc = "unlink"
    /\ Step(unlink(World), [running EXCEPT !.dpc = "done"])

NextRace ==
    \/ \E sd \in BOOLEAN, confirm \in Answers(rnn_is_loaded(World)) :
          ActivateBegins(sd, confirm)
    \/ ActivateReads
    \/ \E k \in DOMAIN StageOrder : ActivateLoads(k)
    \/ ActivateSetsDefault
    \/ ActivateWrites
    \/ \E force \in BOOLEAN :
          \E confirm \in Answers(~force /\ InUse) :
             DeactivateBegins(force, confirm)
    \/ DeactivateReads
    \/ DeactivateUnloads
    \/ DeactivateUnlinks

SpecRace == InitRace /\ [][NextRace]_vars

----------------------------------------------------------------------------
(* The pickle at a path, device lookup and the device listing.  A text is  *)
(* the sequence of its characters.                                         *)

\* The paths a LoadInfo is written to and read from: the default of both
\* methods, and another one.
Paths == {"LOADED_MODULES_PATH", "other.pickle"}

\* LoadInfo.write_pickle(pickle_path): the parent directory of pickle_path
\* is made, the file opened for writing is LOADED_MODULES_PATH.
write_pickle_at(fs, info, pickle_path) ==
    [fs EXCEPT !["LOADED_MODULES_PATH"] = info]

\* LoadInfo.from_pickle(pickle_path): the object read, with the exception
\* raised ("none": returned).
from_pickle_at(fs, pickle_path) ==
    [exc |-> from_pickle_error(fs[pickle_path]), result |-> fs[pickle_path]]

\* The LoadInfo objects saved.
LoadInfos ==
    {[kind |-> "LoadInfo", modules |-> m, control |-> c, device |-> d] :
        d \in Devices, c \in Controls,
        m \in {[stage \in rnn_names |-> 1], [stage \in {null_sink_name} |-> 2]}}

\* What other.pickle holds before.
Contents ==
    {NoFile, Malformed, Truncated}
    \cup {i \in LoadInfos : i.control = MinControl /\ i.device.index = 0}

Digits == <<"0", "1", "2", "3", "4", "5", "6", "7", "8", "9">>

IsDigit(ch) == \E i \in DOMAIN Digits : Digits[i] = ch

DigitValue(ch) == (CHOOSE i \in DOMAIN Digits : Digits[i] = ch) - 1

\* str(n) for n >= 0
RECURSIVE Str(_)
Str(n) == IF n < 10 THEN <<Digits[n + 1]>> ELSE Str(n \div 10) \o <<Digits[(n % 10) + 1]>>

\* int(text): an optional sign and one or more digits, else ValueError.
Unsigned(text) == IF text # <<>> /\ Head(text) \in {"-", "+"} THEN Tail(text) ELSE text

ParsesAsInt(text) ==
    /\ Unsigned(text) # <<>>
    /\ \A i \in DOMAIN Unsigned(text) : IsDigit(Unsigned(text)[i])

RECURSIVE Magnitude(_)
Magnitude(digits) ==
    IF digits = <<>> THEN 0
    ELSE 10 * Magnitude(SubSeq(digits, 1, Len(digits) - 1))
         + DigitValue(digits[Len(digits)])

int(text) ==
    IF Head(text) = "-" THEN 0 - Magnitude(Unsigned(text)) ELSE Magnitude(Unsigned(text))

\* At most MaxSources sources are on the server when a device is looked up
\* or the devices are listed.
MaxSources == 2

\* Sources the server may report (index, name, description); one is named
\* like a number.
QueryDevices ==
    {[index |-> 0, name |-> <<"1">>, description |-> <<"M", "i", "c">>],
     [index |-> 1, name |-> <<"a">>, description |-> <<>>],
     [index |-> 2, name |-> <<"0", "1">>, description |-> <<"M">>],
     [index |-> 10, name |-> <<"a", "b">>, description |-> <<"L", "i", "n", "e">>]}

\* pulse.source_list(): any of them, in any order.
SourceLists ==
    {l \in UNION {[1..n -> QueryDevices] : n \in 0..MaxSources} :
        \A i, j \in DOMAIN l : i # j => l[i] # l[j]}

\* --device values
Identifiers ==
    {<<>>, <<"1">>, <<"0", "1">>, <<"a">>, <<"7">>, <<"-", "1">>,
     <<"1", "0">>, <<"a", "b">>, <<"b">>}

\* The first element of a sequence as a set; none: the StopIteration / the
\* PulseIndexError that the callers turn into ValueError.
First(found) == IF found = <<>> THEN {} ELSE {Head(found)}

get_source_by_num(sources, num) ==
    First(SelectSeq(sources, LAMBDA s : s.index = num))

\* pulse.get_source_by_name(name) on these sources
get_source_by_name_in(sources, name) ==
    First(SelectSeq(sources, LAMBDA s : s.name = name))

\* get_source: "except ValueError" catches the ValueError of int() and the
\* one of get_source_by_num alike.  {}: None.
get_source(sources, identifier) ==
    LET by_num == IF ParsesAsInt(identifier)
                  THEN get_source_by_num(sources, int(identifier))
                  ELSE {}
    IN IF by_num # {} THEN by_num ELSE get_source_by_name_in(sources, identifier)

ANSI_COLOR_YELLOW == <<"ESC", "[", "3", "3", "m">>
ANSI_COLOR_BLUE == <<"ESC", "[", "3", "4", "m">>
ANSI_STYLE_RESET == <<"ESC", "[", "0", "m">>

\* device_strings of list_devices_pretty: the three cells of a device.
device_strings(d) ==
    <<(<<"[">> \o ANSI_COLOR_YELLOW \o Str(d.index) \o ANSI_STYLE_RESET \o <<"]">>),
      (ANSI_COLOR_BLUE \o d.name \o ANSI_STYLE_RESET),
      d.description>>

Max(numbers) == CHOOSE n \in numbers : \A k \in numbers : k <= n

\* column_lens: zip(*device_strings) has no column when there is no device.
column_lens(sources) ==
    IF sources = <<>> THEN <<>>
    ELSE [col \in 1..3 |->
             Max({Len(device_strings(sources[i])[col]) : i \in DOMAIN sources})]

Spaces(n) == [i \in 1..n |-> " "]

\* fmt.format(*s): "{:>w1}  {:<w2}  {:<w3}"
Format(lens, cells) ==
    Spaces(lens[1] - Len(cells[1])) \o cells[1] \o <<" ", " ">>
    \o cells[2] \o Spaces(lens[2] - Len(cells[2])) \o <<" ", " ">>
    \o cells[3] \o Spaces(lens[3] - Len(cells[3]))

\* "\n".join(lines)
RECURSIVE Join(_)
Join(lines) ==
    IF lines = <<>> THEN <<>>
    ELSE IF Len(lines) = 1 THEN lines[1]
    ELSE lines[1] \o <<"\n">> \o Join(Tail(lines))

\* list_devices_pretty: column_lens[0] raises IndexError when there is no
\* column.
list_devices_pretty(sources) ==
    IF Len(column_lens(sources)) < 3
    THEN [exc |-> "IndexError", text |-> <<>>]
    ELSE [exc |-> "none",
          text |-> Join([i \in DOMAIN sources |->
                            Format(column_lens(sources), device_strings(sources[i]))])]

\* A query leaves the pickle and the server as they are.
Query(obs) ==
    /\ last' = obs
    /\ UNCHANGED <<file, live, nextIndex, defaultSource, streams, incidents,
                   running>>

\* info.write_pickle(path) and then LoadInfo.from_pickle(path)
RoundTrip(info, path, other) ==
    LET fs == [p \in Paths |-> IF p = "LOADED_MODULES_PATH" THEN file ELSE other]
        written == write_pickle_at(fs, info, path)
        read == from_pickle_at(written, path)
    IN /\ file' = written["LOADED_MODULES_PATH"]
       /\ last' = [op |-> "round_trip", loaded |-> read.result,
                   result |-> Outcome(read), path |-> path, saved |-> info]
       /\ UNCHANGED <<live, nextIndex, defaultSource, streams, incidents,
                      running>>

\* LoadInfo.from_pickle(path) on what is stored; `loaded` is the content
\* pickle.load is given.
FromPickle(path, other) ==
    LET fs == [p \in Paths |-> IF p = "LOADED_MODULES_PATH" THEN file ELSE other]
        read == from_pickle_at(fs, path)
    IN Query([op |-> "from_pickle", loaded |-> read.result,
              result |-> Outcome(read), path |-> path])

\* PulseInterface.get_source(identifier)
Resolve(sources, identifier) ==
    Query([op |-> "get_source", found |-> get_source(sources, identifier),
           sources |-> sources, identifier |-> identifier])

\* rnnoise list
ListDevices(sources) ==
    Query([op |-> "list", result |-> Outcome(list_devices_pretty(sources)),
           text |-> list_devices_pretty(sources).text, sources |-> sources])

NextQueries ==
    \/ \E info \in LoadInfos, path \in Paths, other \in Contents :
          RoundTrip(info, path, other)
    \/ \E path \in Paths, other \in Contents : FromPickle(path, other)
    \/ \E sources \in SourceLists, identifier \in Identifiers :
          Resolve(sources, identifier)
    \/ \E sources \in SourceLists : ListDevices(sources)

SpecQueries == Init /\ [][NextQueries]_vars

----------------------------------------------------------------------------
(* Properties.  isActive() is rnn_is_loaded, isConsumed() is               *)
(* streams_using_rnnoise, activate / deactivate / reconfigure are the      *)
(* commands Activate / Deactivate / ControlSet.                            *)

InRange(control) == MinControl <= control /\ control <= MaxControl

\* Modules on the server that load_modules loaded.
PipelineModules == {m \in live : m.by = "rnnoise_cli"}

\* The handles of a pickle.
Handles(f) == {get_loaded_modules(f)[s] : s \in DOMAIN get_loaded_modules(f)}

\* The requests of the last command that were loads the server performed.
Loads == {last.reqs[i] : i \in {j \in DOMAIN last.reqs :
                                   last.reqs[j].op = "load" /\ last.reqs[j].ok}}

\* C1: after an activate with a control level in [0,100] that completed
\* (all four loads done, no exception), for either device, rnn_is_loaded()
\* is true.
C1_ActivateThenIsActive ==
    (last.op = "activate" /\ last.result = "ok" /\ InRange(last.control))
        => rnn_is_loaded(World)

C1_Witness ==
    /\ last.op = "activate" /\ last.result = "ok"
    /\ last.control = MaxControl
    /\ Cardinality(Loads) = 4
    /\ file.kind = "LoadInfo" /\ file.device.index = 1
    /\ rnn_is_loaded(World)

\* C2: with a pickled record present and a stream recording from the
\* remapped source, deactivate without --force fails with RNNInUseException
\* and deactivate --force succeeds and leaves no pickle.
C2_DeactivateInUse ==
    (/\ last.op = "deactivate" /\ ~last.all
     /\ last.before.record = "LoadInfo" /\ last.before.consumed)
        => IF last.force
           THEN last.first = "ok" /\ file = NoFile
           ELSE last.first = "RNNInUseException"

C2_Witness ==
    /\ last.op = "deactivate" /\ ~last.all /\ last.force
    /\ last.before.record = "LoadInfo" /\ last.before.consumed
    /\ last.result = "ok" /\ file = NoFile

\* C3: control set --force on an active pipeline whose remapped source is
\* recorded from does not fail with RNNInUseException.
C3_ForcedReconfigureNotInUse ==
    (/\ last.op = "control_set" /\ last.force
     /\ last.before.active /\ last.before.consumed)
        => last.result # "RNNInUseException"

\* C4: after a control set that succeeded, rnn_is_loaded() is true and the
\* pickled control level is the one given.
C4_ReconfigureSetsControl ==
    (last.op = "control_set" /\ last.result = "ok")
        => /\ last.before.active
           /\ rnn_is_loaded(World)
           /\ file.kind = "LoadInfo"
           /\ file.control = last.control

\* ... reached with handles that are all new.
C4_Witness ==
    /\ last.op = "control_set" /\ last.result = "ok"
    /\ last.control = MaxControl
    /\ file.kind = "LoadInfo" /\ file.control = MaxControl
    /\ rnn_is_loaded(World)
    /\ \E i \in DOMAIN last.reqs :
          /\ last.reqs[i].op = "unload" /\ last.reqs[i].ok
          /\ last.reqs[i].index \notin Handles(file)

\* C5: a control level outside [0,100] given to activate or to control set
\* reaches the filter sink and the pickle as 50, so that a pickled control
\* level is always in [0,100].
C5_ControlCoerced ==
    /\ file.kind = "LoadInfo" => InRange(file.control)
    /\ (/\ last.op \in {"activate", "control_set"} /\ last.result = "ok"
        /\ ~InRange(last.control))
          => /\ file.kind = "LoadInfo" /\ file.control = DefaultControl
             /\ \A r \in Loads :
                   r.stage = ladspa_sink_name => r.control = DefaultControl

C7_StaleRecordInactive ==
    /\ (file.kind = "LoadInfo" /\ PipelineModules = {}) => ~rnn_is_loaded(World)
    /\ file.kind = "absent" => ~rnn_is_loaded(World)

C7_Witness ==
    /\ file.kind = "LoadInfo" /\ Handles(file) # {}
    /\ PipelineModules = {}
    /\ incidents > 0
    /\ ~rnn_is_loaded(World)

\* C8: with a pickled record and at least one of the pipeline's modules on
\* the server, rnn_is_loaded() is true.
C8_AnyStageActive ==
    (file.kind = "LoadInfo" /\ PipelineModules # {}) => rnn_is_loaded(World)

\* C9: a deactivate that finds a pickled record and is not refused for the
\* stream in use asks the server to unload every pickled handle, whichever
\* of them are already gone, and ends without error and with no pickle.
C9_TeardownClearsRecord ==
    [][(/\ last'.op = "deactivate" /\ ~last'.all
        /\ file.kind = "LoadInfo"
        /\ last'.result # "RNNInUseException")
          => /\ last'.result = "ok"
             /\ file' = NoFile
             /\ \A h \in Handles(file) :
                   /\ \E i \in DOMAIN last'.reqs :
                         last'.reqs[i].op = "unload" /\ last'.reqs[i].index = h
                   /\ \A m \in live' : m.index # h]_vars

\* ... reached past an unload the server refused.
C9_Witness ==
    /\ last.op = "deactivate" /\ ~last.all /\ last.result = "ok"
    /\ file = NoFile
    /\ \E i, j \in DOMAIN last.reqs :
          /\ i < j
          /\ last.reqs[i].op = "unload" /\ ~last.reqs[i].ok
          /\ last.reqs[j].op = "unload" /\ last.reqs[j].ok

\* C10: after an activate that failed at the load of stage 2, 3 or 4, the
\* stages it had loaded are on the server and their handles are in the
\* pickle.
C10_PartialBuildRecorded ==
    (/\ last.op = "activate" /\ last.result = "PulseOperationFailed"
     /\ \E i \in DOMAIN last.reqs :
           /\ last.reqs[i].op = "load" /\ ~last.reqs[i].ok
           /\ last.reqs[i].stage # null_sink_name)
        => \A r \in Loads :
              /\ \E m \in live : m.index = r.index
              /\ file.kind = "LoadInfo"
              /\ r.stage \in DOMAIN file.modules
              /\ file.modules[r.stage] = r.index

\* The requests of the last command that were unloads of one module.
Unloads == {last.reqs[i] : i \in {j \in DOMAIN last.reqs :
                                     last.reqs[j].op = "unload"}}

\* C11: deactivate --force-unload-all, whatever the pickle and whether or
\* not a stream records from the remapped source, sends "unload-module" for
\* each of the four module types and nothing else, leaves no pickle and no
\* module of these types on the server (rnnoise-cli's or not), and
\* rnn_is_loaded() is false afterwards.
C11_ForceAllClearsEverything ==
    (last.op = "deactivate" /\ last.all)
        => /\ file = NoFile
           /\ \A m \in live : m.kind \notin RnnKinds
           /\ ~rnn_is_loaded(World)
           /\ last.result = "ok"
           /\ Len(last.reqs) = Cardinality(RnnKinds)
           /\ {last.reqs[i].stage : i \in DOMAIN last.reqs} = RnnKinds
           /\ \A i \in DOMAIN last.reqs : last.reqs[i].op = "unload-type"

\* ... reached from a recorded, consumed pipeline next to a loopback that
\* is not rnnoise-cli's.
C11_Witness ==
    /\ last.op = "deactivate" /\ last.all
    /\ last.before.record = "LoadInfo" /\ last.before.consumed
    /\ file = NoFile /\ live = {} /\ streams = {}

\* C12: control set while rnn_is_loaded() returns False ends with
\* NotActivatedException, also with a stream recording from the remapped
\* source and whatever --force says; it sends no request and changes
\* neither the pickle nor the modules on the server.
C12_ReconfigureInactive ==
    [][(last'.op = "control_set" /\ ~Unreadable(World) /\ ~rnn_is_loaded(World))
          => /\ last'.first = "NotActivatedException"
             /\ last'.result = "NotActivatedException"
             /\ last'.reqs = <<>>
             /\ file' = file
             /\ live' = live]_vars

\* ... reached with a stream on the remapped source and without --force.
C12_Witness ==
    /\ last.op = "control_set" /\ ~last.force
    /\ ~last.before.active /\ last.before.consumed
    /\ last.result = "NotActivatedException"
    /\ last.reqs = <<>>

\* C13: a deactivate (other than --force-unload-all) or control set that
\* begins while streams_using_rnnoise() holds sends an unload request only
\* if --force was given or the user confirmed after the
\* RNNInUseException.
C13_NoSilentEscalation ==
    (/\ last.op \in {"deactivate", "control_set"} /\ ~last.all
     /\ last.before.consumed
     /\ Unloads # {})
        => \/ last.force
           \/ last.retried /\ last.first = "RNNInUseException"

\* ... reached by a confirmed deactivate.
C13_Witness ==
    /\ last.op = "deactivate" /\ ~last.all /\ ~last.force
    /\ last.before.consumed /\ last.retried
    /\ \E r \in Unloads : r.ok

C18_LoadOrder ==
    last.op = "activate"
        => /\ Len(last.reqs) <= Len(StageOrder)
           /\ \A i \in DOMAIN last.reqs :
                 /\ last.reqs[i].op = "load"
                 /\ last.reqs[i].stage = StageOrder[i]
                 /\ i < Len(last.reqs) => last.reqs[i].ok

\* ... reached where the third load is refused.
C18_Witness ==
    /\ last.op = "activate"
    /\ Len(last.reqs) = 3
    /\ last.reqs[1].ok /\ last.reqs[2].ok /\ ~last.reqs[3].ok

\* C19: a pickled LoadInfo maps all four stage names to handles, and a
\* step that writes one is an activate or control set that ended without
\* error after four loads the server performed, whose indices are the
\* handles written.
C19_RecordOnlyAfterFullBuild ==
    [][/\ file'.kind = "LoadInfo" => DOMAIN file'.modules = rnn_names
       /\ (file' # file /\ file'.kind = "LoadInfo")
             => /\ last'.op \in {"activate", "control_set"}
                /\ last'.result = "ok"
                /\ \A stage \in rnn_names :
                      \E i \in DOMAIN last'.reqs :
                         /\ last'.reqs[i].op = "load" /\ last'.reqs[i].ok
                         /\ last'.reqs[i].stage = stage
                         /\ last'.reqs[i].index = file'.modules[stage]]_vars

\* ... reached where a second activate is refused half way: the pickle
\* still is the one of the first, with none of the new handles.
C19_Witness ==
    /\ last.op = "activate" /\ last.result = "PulseOperationFailed"
    /\ Loads # {}
    /\ file.kind = "LoadInfo" /\ DOMAIN file.modules = rnn_names
    /\ \A r \in Loads : r.index \notin Handles(file)

\* C20: a deactivate or control set without --force that ends with
\* RNNInUseException has sent no request and has changed neither the
\* pickle nor the modules on the server, the streams or the default source.
C20_InUseChangesNothing ==
    [][(/\ last'.op \in {"deactivate", "control_set"} /\ ~last'.all
        /\ ~last'.force
        /\ last'.result = "RNNInUseException")
          => /\ last'.reqs = <<>>
             /\ file' = file
             /\ live' = live
             /\ streams' = streams
             /\ defaultSource' = defaultSource
             /\ nextIndex' = nextIndex]_vars

C20_Witness ==
    /\ last.op = "control_set" /\ ~last.force /\ ~last.retried
    /\ last.before.active /\ last.before.consumed
    /\ last.result = "RNNInUseException"
    /\ last.reqs = <<>> /\ file.kind = "LoadInfo"

\* C15: for every LoadInfo and every path, info.write_pickle(path) followed
\* by LoadInfo.from_pickle(path) returns, without exception, an object
\* equal to info in device, control and modules.
C15_PickleRoundTrip ==
    last.op = "round_trip"
        => /\ last.result = "ok"
           /\ last.loaded.kind = "LoadInfo"
           /\ last.loaded.device = last.saved.device
           /\ last.loaded.control = last.saved.control
           /\ last.loaded.modules = last.saved.modules

\* C16: get_source(identifier) is, for an identifier that int() accepts,
\* the source with that index or None, and otherwise the source with
\* exactly that name or None.
C16_ResolveByNumberOrName ==
    last.op = "get_source"
        => LET all == {last.sources[i] : i \in DOMAIN last.sources}
           IN IF ParsesAsInt(last.identifier)
              THEN last.found = {s \in all : s.index = int(last.identifier)}
              ELSE last.found = {s \in all : s.name = last.identifier}

\* The lines of a text.
RECURSIVE Lines(_)
Lines(text) ==
    IF text = <<>> THEN <<>>
    ELSE IF \E i \in DOMAIN text : text[i] = "\n"
    THEN LET k == CHOOSE i \in DOMAIN text :
                     text[i] = "\n" /\ \A j \in 1..(i - 1) : text[j] # "\n"
         IN <<SubSeq(text, 1, k - 1)>> \o Lines(SubSeq(text, k + 1, Len(text)))
    ELSE <<text>>

\* C17: for every list of sources, the empty one included, rnnoise list
\* ends without error and its text has one line per source, in the order
\* of the list, each holding the cells of index, name and description
\* separated by two spaces and padded so that all lines are equally long.
C17_ListOneLinePerDevice ==
    last.op = "list"
        => /\ last.result = "ok"
           /\ LET lines == Lines(last.text)
              IN /\ Len(lines) = Len(last.sources)
                 /\ \A i, j \in DOMAIN lines : Len(lines[i]) = Len(lines[j])
                 /\ \A i \in DOMAIN lines :
                       LET cells == device_strings(last.sources[i])
                       IN \E a, b, c \in 0..Len(lines[i]) :
                             lines[i] = Spaces(a) \o cells[1] \o <<" ", " ">>
                                        \o cells[2] \o Spaces(b) \o <<" ", " ">>
                                        \o cells[3] \o Spaces(c)

\* C21: streams_using_rnnoise() is false when no source on the server is
\* named rnnoise_denoised, whatever the pickle; otherwise it is true
\* exactly when a stream records from the source of that name.
C21_ConsumedByName ==
    LET named == {m \in live : m.source = remap_source_name}
    IN IF named = {}
       THEN ~streams_using_rnnoise(World)
       ELSE streams_using_rnnoise(World)
               <=> \E m \in named : SourceIndex(m) \in streams

\* ... reached where it is true without a pickle.
C21_Witness ==
    /\ file = NoFile
    /\ streams_using_rnnoise(World)
    /\ \E m \in live : m.source = remap_source_name /\ SourceIndex(m) \in streams

\* C22: a control set that ends without error leaves the pickled device
\* as it was and loads the loopback with that device as its source.
C22_ReconfigureKeepsDevice ==
    [][(last'.op = "control_set" /\ last'.result = "ok")
          => /\ file.kind = "LoadInfo" /\ file'.kind = "LoadInfo"
             /\ file'.device = file.device
             /\ \E i \in DOMAIN last'.reqs :
                   /\ last'.reqs[i].op = "load" /\ last'.reqs[i].ok
                   /\ last'.reqs[i].stage = loopback_key
                   /\ last'.reqs[i].device = file.device.name
             /\ \A i \in DOMAIN last'.reqs :
                   (last'.reqs[i].op = "load" /\ last'.reqs[i].stage = loopback_key)
                      => last'.reqs[i].device = file.device.name]_vars

\* ... reached for the second hardware source.
C22_Witness ==
    /\ last.op = "control_set" /\ last.result = "ok"
    /\ file.kind = "LoadInfo" /\ file.device.index = 1
    /\ \E r \in Loads : r.stage = loopback_key /\ r.device = file.device.name

\* C23: after an activate that ends without error the default source is
\* rnnoise_denoised if --set-default was given and is as before if not;
\* and an activate whose four loads were performed has pickled their
\* handles, whether or not it was to set the default source and whether or
\* not the server did so.
C23_DefaultAndRecord ==
    [][last'.op = "activate"
          => /\ (last'.result = "ok" /\ last'.set_default)
                   => defaultSource' = remap_source_name
             /\ (last'.result = "ok" /\ ~last'.set_default)
                   => defaultSource' = defaultSource
             /\ (\A stage \in rnn_names :
                    \E i \in DOMAIN last'.reqs :
                       last'.reqs[i].stage = stage /\ last'.reqs[i].ok)
                   => /\ file'.kind = "LoadInfo"
                      /\ \A i \in DOMAIN last'.reqs :
                            file'.modules[last'.reqs[i].stage] = last'.reqs[i].index]_vars

\* C24: from_pickle raises FileNotFoundError when nothing is stored at the
\* path, ValueError when what is stored is not a LoadInfo, and returns
\* only a LoadInfo.
C24_FromPickleErrors ==
    last.op = "from_pickle"
        => last.result = CASE last.loaded.kind = "absent" -> "FileNotFoundError"
                           [] last.loaded.kind = "LoadInfo" -> "ok"
                           [] OTHER -> "ValueError"

\* C25: with the commands run one after another and nobody else touching
\* the pickle or the modules, every module load_modules loaded that is
\* still on the server has its index in the pickle.
C25_LoadedModulesRecorded ==
    \A m \in PipelineModules : m.index \in Handles(file)

\* C26: a pickle that holds no LoadInfo is treated as no pickle and is
\* left in place: rnn_is_loaded() returns False; a deactivate that is not
\* refused for the stream in use ends with NoLoadedModulesException and a
\* control set with NotActivatedException, both leaving the file as it is;
\* only deactivate --force-unload-all or an activate that succeeds removes
\* or replaces it.
C26_MalformedAsAbsent ==
    [][file.kind \notin {"absent", "LoadInfo"}
          => /\ ~Unreadable(World) /\ ~rnn_is_loaded(World)
             /\ (/\ last'.op = "deactivate" /\ ~last'.all
                 /\ last'.result # "RNNInUseException")
                   => /\ last'.result = "NoLoadedModulesException"
                      /\ file' = file
             /\ last'.op = "control_set"
                   => /\ last'.result = "NotActivatedException"
                      /\ file' = file
             /\ (last'.op # "env" /\ file' # file)
                   => \/ last'.op = "deactivate" /\ last'.all
                      \/ last'.op = "activate" /\ last'.result = "ok"]_vars

\* The modules on the server that the activate of the race loaded.
LoadedByActivate == {m \in live : m.index \in running.amine}

BothFinished == running.apc = "done" /\ running.dpc = "done"

====
